---- MODULE Spec2Model ----
(***************************************************************************)
(* bchaddrjs (SLP fork): detection and translation of Bitcoin Cash address *)
(* formats, src/src/bchaddr.js.                                            *)
(*                                                                         *)
(* The library is a set of pure functions over address strings.  A run of  *)
(* the model is a caller making one API call on a fresh argument and then  *)
(* a second call on what the first one returned, which is how round trips, *)
(* idempotence and transitivity of the translators are exercised.          *)
(*                                                                         *)
(* Address strings are modelled by what the two external codecs read from  *)
(* them (bs58check and cashaddrjs-slp are dependencies, not part of the    *)
(* repository):                                                            *)
(*   kind    "base58"   a base58 text: bytes is its payload, sum says      *)
(*                      whether its 4-byte checksum is right               *)
(*           "cashaddr" a base32 text: bytes is the hash, marker the type  *)
(*                      bits, sealed the prefix its checksum was computed  *)
(*                      over, sum whether the checksum is intact           *)
(*           "junk"     a string that is neither ("not an address")        *)
(*           "number"   a value that is not a string (123)                 *)
(*   prefix  the part before ':' in the string, "" when there is no ':'    *)
(* Both encodings are canonical: one payload, one text.  A text of one     *)
(* codec is never a valid text of the other.                               *)
(***************************************************************************)
EXTENDS Integers, Sequences, FiniteSets, TLC

\* ------------------------------------------------------------------ bounds

\* Hash bytes of the sampled addresses range over 0..MaxByte.
MaxByte == 1

\* ------------------------------------------------------- enums and tables

Format == [Legacy |-> "legacy", Bitpay |-> "bitpay",
           Cashaddr |-> "cashaddr", Slpaddr |-> "slpaddr"]

Network == [Mainnet |-> "mainnet", Testnet |-> "testnet", Regtest |-> "regtest"]

Type == [P2PKH |-> "p2pkh", P2SH |-> "p2sh"]

Formats == {Format.Legacy, Format.Bitpay, Format.Cashaddr, Format.Slpaddr}

Networks == {Network.Mainnet, Network.Testnet, Network.Regtest}

Types == {Type.P2PKH, Type.P2SH}

\* VERSION_BYTE[format][network][type]; Bitpay has no regtest row.
VERSION_BYTE ==
  [legacy |-> [mainnet |-> [p2pkh |-> 0,   p2sh |-> 5],
               testnet |-> [p2pkh |-> 111, p2sh |-> 196],
               regtest |-> [p2pkh |-> 111, p2sh |-> 196]],
   bitpay |-> [mainnet |-> [p2pkh |-> 28,  p2sh |-> 40],
               testnet |-> [p2pkh |-> 111, p2sh |-> 196]]]

BASE_58_CHECK_PAYLOAD_LENGTH == 21

\* ------------------------------------------------------ results and errors

NoError == "none"

InvalidAddressError == "InvalidAddressError"

\* A normal return of a value of the given sort
\* ("text", "decoded", "boolean", "enum", "bytes", "triple").
Ok(sort, v) == [err |-> NoError, sort |-> sort, val |-> v]

\* An exception of the given kind leaving the function.
Throw(e) == [err |-> e, sort |-> "none", val |-> <<>>]

Succeeded(r) == r.err = NoError

\* regtest = typeof regtest === 'boolean' ? regtest : false
\* A regtest argument is the boolean "true" or "false", or "undefined" when
\* the caller leaves it out.
RegtestArgs == {"true", "false", "undefined"}

BooleanOrFalse(regtest) == IF regtest \in {"true", "false"} THEN regtest ELSE "false"

\* ------------------------------------------------------------ the codecs

NoPrefix == ""

\* Hash sizes in bytes the checksummed-prefix codec encodes and decodes
\* (160 to 512 bits).
CashaddrHashSizes == {20, 24, 28, 32, 40, 48, 56, 64}

MkText(kind, prefix, sealed, marker, bytes, sum) ==
  [kind |-> kind, prefix |-> prefix, sealed |-> sealed, marker |-> marker,
   bytes |-> bytes, sum |-> sum]

IsString(x) == x.kind # "number"

\* address.indexOf(':') !== -1
HasColon(address) == address.prefix # NoPrefix

\* prefix + ':' + address, for an address without ':'
Prepend(prefix, address) == [address EXCEPT !.prefix = prefix]

\* bs58check.decode: the payload, or an error on a non-string, a character
\* outside the alphabet or a wrong checksum.
bs58check_decode(address) ==
  IF ~IsString(address) THEN Throw("TypeError")
  ELSE IF address.kind = "base58" /\ address.prefix = NoPrefix /\ address.sum
       THEN Ok("bytes", address.bytes)
       ELSE Throw("Error")

\* bs58check.encode: every byte buffer has one text.
bs58check_encode(buffer) == MkText("base58", NoPrefix, "", "", buffer, TRUE)

\* cashaddr.decode: needs prefix ':' payload, a checksum valid for that
\* prefix and a hash of the size its version byte announces.
cashaddr_decode(address) ==
  IF ~IsString(address) THEN Throw("ValidationError")
  ELSE IF /\ address.kind = "cashaddr"
          /\ address.prefix # NoPrefix
          /\ address.sum
          /\ address.sealed = address.prefix
          /\ Len(address.bytes) \in CashaddrHashSizes
       THEN Ok("triple", [prefix |-> address.prefix, type |-> address.marker,
                          hash |-> address.bytes])
       ELSE Throw("ValidationError")

\* cashaddr.encode(prefix, type, hash): always renders the prefix.
cashaddr_encode(prefix, type, hash) ==
  IF Len(hash) \in CashaddrHashSizes
  THEN Ok("text", MkText("cashaddr", prefix, prefix, type, hash, TRUE))
  ELSE Throw("ValidationError")

\* ------------------------------------------------------------- decoding

Decoded(hash, format, network, type) ==
  [hash |-> hash, format |-> format, network |-> network, type |-> type]

\* Attempts to decode the given address assuming it is a base58 address.
decodeBase58Address(address, regtestArg) ==
  LET regtest == BooleanOrFalse(regtestArg)
      decoded == bs58check_decode(address)
      payload == decoded.val
      versionByte == payload[1]
      hash == Tail(payload)
      Hit(format, network, type) == Ok("decoded", Decoded(hash, format, network, type))
  IN  IF ~Succeeded(decoded) THEN Throw(InvalidAddressError)
      ELSE IF Len(payload) # BASE_58_CHECK_PAYLOAD_LENGTH THEN Throw(InvalidAddressError)
      ELSE IF regtest = "false"
      THEN IF versionByte = VERSION_BYTE[Format.Legacy][Network.Mainnet][Type.P2PKH]
             THEN Hit(Format.Legacy, Network.Mainnet, Type.P2PKH)
           ELSE IF versionByte = VERSION_BYTE[Format.Legacy][Network.Mainnet][Type.P2SH]
             THEN Hit(Format.Legacy, Network.Mainnet, Type.P2SH)
           ELSE IF versionByte = VERSION_BYTE[Format.Legacy][Network.Testnet][Type.P2PKH]
             THEN Hit(Format.Legacy, Network.Testnet, Type.P2PKH)
           ELSE IF versionByte = VERSION_BYTE[Format.Legacy][Network.Testnet][Type.P2SH]
             THEN Hit(Format.Legacy, Network.Testnet, Type.P2SH)
           ELSE IF versionByte = VERSION_BYTE[Format.Bitpay][Network.Mainnet][Type.P2PKH]
             THEN Hit(Format.Bitpay, Network.Mainnet, Type.P2PKH)
           ELSE IF versionByte = VERSION_BYTE[Format.Bitpay][Network.Mainnet][Type.P2SH]
             THEN Hit(Format.Bitpay, Network.Mainnet, Type.P2SH)
           ELSE Throw(InvalidAddressError)
      ELSE IF versionByte = VERSION_BYTE[Format.Legacy][Network.Regtest][Type.P2PKH]
             THEN Hit(Format.Legacy, Network.Regtest, Type.P2PKH)
           ELSE IF versionByte = VERSION_BYTE[Format.Legacy][Network.Regtest][Type.P2SH]
             THEN Hit(Format.Legacy, Network.Regtest, Type.P2SH)
           ELSE Throw(InvalidAddressError)

\* decoded.type === 'P2PKH' ? Type.P2PKH : Type.P2SH
TypeOfMarker(marker) == IF marker = "P2PKH" THEN Type.P2PKH ELSE Type.P2SH

\* decodeCashAddressWithPrefix with the regtest prefix accepted in either
\* mode.
decodeCashAddressWithPrefix_AnyMode(address, regtestArg) ==
  LET decoded == cashaddr_decode(address)
      hash == decoded.val.hash
      type == TypeOfMarker(decoded.val.type)
      prefix == decoded.val.prefix
  IN  IF ~Succeeded(decoded) THEN Throw(InvalidAddressError)
      ELSE IF prefix = "bitcoincash"
        THEN Ok("decoded", Decoded(hash, Format.Cashaddr, Network.Mainnet, type))
      ELSE IF prefix = "bchtest"
        THEN Ok("decoded", Decoded(hash, Format.Cashaddr, Network.Testnet, type))
      ELSE IF prefix = "bchreg"
        THEN Ok("decoded", Decoded(hash, Format.Cashaddr, Network.Regtest, type))
      ELSE Throw(InvalidAddressError)

\* decodeCashAddressWithPrefix with a case for the prefix 'regtest' in
\* regtest mode.
decodeCashAddressWithPrefix_RegtestPrefix(address, regtestArg) ==
  LET regtest == BooleanOrFalse(regtestArg)
      decoded == cashaddr_decode(address)
      hash == decoded.val.hash
      type == TypeOfMarker(decoded.val.type)
      prefix == decoded.val.prefix
  IN  IF ~Succeeded(decoded) THEN Throw(InvalidAddressError)
      ELSE IF regtest = "false"
      THEN IF prefix = "bitcoincash"
             THEN Ok("decoded", Decoded(hash, Format.Cashaddr, Network.Mainnet, type))
           ELSE IF prefix = "bchtest"
             THEN Ok("decoded", Decoded(hash, Format.Cashaddr, Network.Testnet, type))
           ELSE Throw(InvalidAddressError)
      ELSE IF prefix \in {"regtest", "bchreg"}
             THEN Ok("decoded", Decoded(hash, Format.Cashaddr, Network.Regtest, type))
           ELSE Throw(InvalidAddressError)

\* Attempts to decode the given address assuming it is a cashaddr address
\* with explicit prefix.
decodeCashAddressWithPrefix(address, regtestArg) ==
  LET regtest == BooleanOrFalse(regtestArg)
      decoded == cashaddr_decode(address)
      hash == decoded.val.hash
      type == TypeOfMarker(decoded.val.type)
      prefix == decoded.val.prefix
  IN  IF ~Succeeded(decoded) THEN Throw(InvalidAddressError)
      ELSE IF regtest = "false"
      THEN IF prefix = "bitcoincash"
             THEN Ok("decoded", Decoded(hash, Format.Cashaddr, Network.Mainnet, type))
           ELSE IF prefix = "bchtest"
             THEN Ok("decoded", Decoded(hash, Format.Cashaddr, Network.Testnet, type))
           ELSE Throw(InvalidAddressError)
      ELSE IF prefix = "bchreg"
             THEN Ok("decoded", Decoded(hash, Format.Cashaddr, Network.Regtest, type))
           ELSE Throw(InvalidAddressError)

\* decodeSlpAddressWithPrefix with the regtest prefix accepted in either
\* mode.
decodeSlpAddressWithPrefix_AnyMode(address, regtestArg) ==
  LET decoded == cashaddr_decode(address)
      hash == decoded.val.hash
      type == TypeOfMarker(decoded.val.type)
      prefix == decoded.val.prefix
  IN  IF ~Succeeded(decoded) THEN Throw(InvalidAddressError)
      ELSE IF prefix = "simpleledger"
        THEN Ok("decoded", Decoded(hash, Format.Slpaddr, Network.Mainnet, type))
      ELSE IF prefix = "slptest"
        THEN Ok("decoded", Decoded(hash, Format.Slpaddr, Network.Testnet, type))
      ELSE IF prefix = "slpreg"
        THEN Ok("decoded", Decoded(hash, Format.Slpaddr, Network.Regtest, type))
      ELSE Throw(InvalidAddressError)

\* Attempts to decode the given address assuming it is a slpaddr address
\* with explicit prefix.
decodeSlpAddressWithPrefix(address, regtestArg) ==
  LET regtest == BooleanOrFalse(regtestArg)
      decoded == cashaddr_decode(address)
      hash == decoded.val.hash
      type == TypeOfMarker(decoded.val.type)
      prefix == decoded.val.prefix
  IN  IF ~Succeeded(decoded) THEN Throw(InvalidAddressError)
      ELSE IF regtest = "false"
      THEN IF prefix = "simpleledger"
             THEN Ok("decoded", Decoded(hash, Format.Slpaddr, Network.Mainnet, type))
           ELSE IF prefix = "slptest"
             THEN Ok("decoded", Decoded(hash, Format.Slpaddr, Network.Testnet, type))
           ELSE Throw(InvalidAddressError)
      ELSE IF prefix = "slpreg"
             THEN Ok("decoded", Decoded(hash, Format.Slpaddr, Network.Regtest, type))
           ELSE Throw(InvalidAddressError)

\* var prefixes = [...] of decodeCashAddress and of decodeSlpAddress
CashPrefixes == <<"bitcoincash", "bchtest", "regtest", "bchreg">>

SlpPrefixes == <<"simpleledger", "slptest", "slpreg">>

\* for (i = 0; i < prefixes.length; ++i) try { return decode(prefix + ':' +
\* address) } catch {}: the first candidate that decodes, from index i on.
RECURSIVE CashCandidates(_, _, _)
CashCandidates(address, regtest, i) ==
  IF i > Len(CashPrefixes) THEN Throw(InvalidAddressError)
  ELSE LET r == decodeCashAddressWithPrefix(Prepend(CashPrefixes[i], address), regtest)
       IN  IF Succeeded(r) THEN r ELSE CashCandidates(address, regtest, i + 1)

\* The candidates that loop prepends before it returns or runs out, from
\* index i on.
RECURSIVE CashTried(_, _, _)
CashTried(address, regtest, i) ==
  IF i > Len(CashPrefixes) THEN <<>>
  ELSE IF Succeeded(decodeCashAddressWithPrefix(Prepend(CashPrefixes[i], address), regtest))
       THEN <<CashPrefixes[i]>>
       ELSE <<CashPrefixes[i]>> \o CashTried(address, regtest, i + 1)

RECURSIVE SlpCandidates(_, _, _)
SlpCandidates(address, regtest, i) ==
  IF i > Len(SlpPrefixes) THEN Throw(InvalidAddressError)
  ELSE LET r == decodeSlpAddressWithPrefix(Prepend(SlpPrefixes[i], address), regtest)
       IN  IF Succeeded(r) THEN r ELSE SlpCandidates(address, regtest, i + 1)

\* Attempts to decode the given address assuming it is a cashaddr address.
\* address.indexOf is evaluated outside any try block: a value that is not
\* a string raises a TypeError here.
decodeCashAddress(address, regtestArg) ==
  LET regtest == BooleanOrFalse(regtestArg)
  IN  IF ~IsString(address) THEN Throw("TypeError")
      ELSE IF HasColon(address)
      THEN LET r == decodeCashAddressWithPrefix(address, regtest)
           IN  IF Succeeded(r) THEN r ELSE Throw(InvalidAddressError)
      ELSE CashCandidates(address, regtest, 1)

\* Attempts to decode the given address assuming it is a slpaddr address.
decodeSlpAddress(address, regtestArg) ==
  LET regtest == BooleanOrFalse(regtestArg)
  IN  IF ~IsString(address) THEN Throw("TypeError")
      ELSE IF HasColon(address)
      THEN LET r == decodeSlpAddressWithPrefix(address, regtest)
           IN  IF Succeeded(r) THEN r ELSE Throw(InvalidAddressError)
      ELSE SlpCandidates(address, regtest, 1)

\* decodeAddress with the order of its first two attempts exchanged.
decodeAddressRun_CashFirst(address, regtestArg) ==
  LET regtest == BooleanOrFalse(regtestArg)
      c == decodeCashAddress(address, regtest)
      b == decodeBase58Address(address, regtest)
      s == decodeSlpAddress(address, regtest)
  IN  IF Succeeded(c) THEN [out |-> c, consulted |-> <<"cashaddr">>]
      ELSE IF Succeeded(b) THEN [out |-> b, consulted |-> <<"cashaddr", "base58">>]
      ELSE IF Succeeded(s) THEN [out |-> s, consulted |-> <<"cashaddr", "base58", "slpaddr">>]
      ELSE [out |-> Throw(InvalidAddressError),
            consulted |-> <<"cashaddr", "base58", "slpaddr">>]

\* decodeAddress without the try/catch around the cashaddr attempt.
decodeAddressRun_NoCatch(address, regtestArg) ==
  LET regtest == BooleanOrFalse(regtestArg)
      b == decodeBase58Address(address, regtest)
      c == decodeCashAddress(address, regtest)
      s == decodeSlpAddress(address, regtest)
  IN  IF Succeeded(b) THEN [out |-> b, consulted |-> <<"base58">>]
      ELSE IF Succeeded(c) THEN [out |-> c, consulted |-> <<"base58", "cashaddr">>]
      ELSE IF c.err # InvalidAddressError
           THEN [out |-> c, consulted |-> <<"base58", "cashaddr">>]
      ELSE IF Succeeded(s) THEN [out |-> s, consulted |-> <<"base58", "cashaddr", "slpaddr">>]
      ELSE [out |-> Throw(InvalidAddressError),
            consulted |-> <<"base58", "cashaddr", "slpaddr">>]

\* decodeAddress: three try blocks in a row, each returning on success and
\* swallowing whatever its attempt throws.  out is what the call returns or
\* throws, consulted the schemes it called, in order.
decodeAddressRun(address, regtestArg) ==
  LET regtest == BooleanOrFalse(regtestArg)
      b == decodeBase58Address(address, regtest)
      c == decodeCashAddress(address, regtest)
      s == decodeSlpAddress(address, regtest)
  IN  IF Succeeded(b) THEN [out |-> b, consulted |-> <<"base58">>]
      ELSE IF Succeeded(c) THEN [out |-> c, consulted |-> <<"base58", "cashaddr">>]
      ELSE IF Succeeded(s) THEN [out |-> s, consulted |-> <<"base58", "cashaddr", "slpaddr">>]
      ELSE [out |-> Throw(InvalidAddressError),
            consulted |-> <<"base58", "cashaddr", "slpaddr">>]

\* Decodes the given address into its constituting hash, format, network
\* and type.
decodeAddress(address, regtest) == decodeAddressRun(address, regtest).out

\* ------------------------------------------------------------- encoding

\* Encodes the given decoded address into legacy format.  Indexing a
\* network row the table does not have raises a TypeError.
encodeAsLegacy(decoded) ==
  IF decoded.network \notin DOMAIN VERSION_BYTE[Format.Legacy]
  THEN Throw("TypeError")
  ELSE LET versionByte == VERSION_BYTE[Format.Legacy][decoded.network][decoded.type]
           buffer == <<versionByte>> \o decoded.hash
       IN  Ok("text", bs58check_encode(buffer))

\* encodeAsBitpay falling back to the Legacy row where Bitpay has none.
encodeAsBitpay_LegacyFallback(decoded) ==
  IF decoded.network \notin DOMAIN VERSION_BYTE[Format.Bitpay]
  THEN encodeAsLegacy(decoded)
  ELSE Ok("text", bs58check_encode(
            <<VERSION_BYTE[Format.Bitpay][decoded.network][decoded.type]>> \o decoded.hash))

\* Encodes the given decoded address into bitpay format.
encodeAsBitpay(decoded) ==
  IF decoded.network \notin DOMAIN VERSION_BYTE[Format.Bitpay]
  THEN Throw("TypeError")
  ELSE LET versionByte == VERSION_BYTE[Format.Bitpay][decoded.network][decoded.type]
           buffer == <<versionByte>> \o decoded.hash
       IN  Ok("text", bs58check_encode(buffer))

network2BchPrefix(network) ==
  IF network = Network.Testnet THEN "bchtest"
  ELSE IF network = Network.Regtest THEN "bchreg"
  ELSE "bitcoincash"

\* decoded.type === Type.P2PKH ? 'P2PKH' : 'P2SH'
MarkerOfType(type) == IF type = Type.P2PKH THEN "P2PKH" ELSE "P2SH"

\* Encodes the given decoded address into cashaddr format.
encodeAsCashaddr(decoded) ==
  LET prefix == network2BchPrefix(decoded.network)
      type == MarkerOfType(decoded.type)
      hash == decoded.hash
  IN  cashaddr_encode(prefix, type, hash)

\* network2slpPrefix without its regtest case.
network2slpPrefix_NoRegtest(network) ==
  IF network = Network.Testnet THEN "slptest" ELSE "simpleledger"

network2slpPrefix(network) ==
  IF network = Network.Testnet THEN "slptest"
  ELSE IF network = Network.Regtest THEN "slpreg"
  ELSE "simpleledger"

\* Encodes the given decoded address into slpaddr format.
encodeAsSlpaddr(decoded) ==
  LET prefix == network2slpPrefix(decoded.network)
      type == MarkerOfType(decoded.type)
      hash == decoded.hash
  IN  cashaddr_encode(prefix, type, hash)

\* Encodes the given decoded address into regtest format.
encodeAsRegtestaddr(decoded) ==
  cashaddr_encode("bchreg", MarkerOfType(decoded.type), decoded.hash)

encodeAsSlpRegtestaddr(decoded) ==
  cashaddr_encode("slpreg", MarkerOfType(decoded.type), decoded.hash)

\* ------------------------------------------- validity check and detectors

\* isValidAddress letting the failure of decodeAddress through.
isValidAddress_Rethrow(input) ==
  LET r == decodeAddress(input, "undefined")
  IN  IF Succeeded(r) THEN Ok("boolean", TRUE) ELSE r

\* Whether the given input is a valid Bitcoin Cash address: decodeAddress
\* is called with the input alone, and any failure becomes false.
isValidAddress(input) ==
  IF Succeeded(decodeAddress(input, "undefined"))
  THEN Ok("boolean", TRUE)
  ELSE Ok("boolean", FALSE)

\* decodeAddress(address, regtest).<field>: the field of a success, the
\* exception of a failure.
Project(r, field) == IF Succeeded(r) THEN Ok("enum", r.val[field]) ELSE r

detectAddressFormat(address, regtest) ==
  Project(decodeAddress(address, BooleanOrFalse(regtest)), "format")

detectAddressNetwork(address, regtest) ==
  Project(decodeAddress(address, BooleanOrFalse(regtest)), "network")

detectAddressType(address, regtest) ==
  Project(decodeAddress(address, BooleanOrFalse(regtest)), "type")

\* ------------------------------------------------------------ translators

\* Translates the given address into legacy format.
toLegacyAddress(address, regtestArg) ==
  LET regtest == BooleanOrFalse(regtestArg)
      decoded == decodeAddress(address, regtest)
  IN  IF ~Succeeded(decoded) THEN decoded
      ELSE IF decoded.val.format = Format.Legacy THEN Ok("text", address)
      ELSE encodeAsLegacy(decoded.val)

\* toBitpayAddress resolving its input in regtest mode.
toBitpayAddress_Regtest(address) ==
  LET decoded == decodeAddress(address, "true")
  IN  IF ~Succeeded(decoded) THEN decoded
      ELSE IF decoded.val.format = Format.Bitpay THEN Ok("text", address)
      ELSE encodeAsBitpay(decoded.val)

\* Translates the given address into bitpay format.
toBitpayAddress(address) ==
  LET decoded == decodeAddress(address, "undefined")
  IN  IF ~Succeeded(decoded) THEN decoded
      ELSE IF decoded.val.format = Format.Bitpay THEN Ok("text", address)
      ELSE encodeAsBitpay(decoded.val)

\* toCashAddress returning an address already in the format as it came.
toCashAddress_ShortCircuit(address, regtestArg) ==
  LET regtest == BooleanOrFalse(regtestArg)
      decoded == decodeAddress(address, regtest)
  IN  IF ~Succeeded(decoded) THEN decoded
      ELSE IF decoded.val.format = Format.Cashaddr THEN Ok("text", address)
      ELSE encodeAsCashaddr(decoded.val)

\* Translates the given address into cashaddr format.
toCashAddress(address, regtestArg) ==
  LET regtest == BooleanOrFalse(regtestArg)
      decoded == decodeAddress(address, regtest)
  IN  IF ~Succeeded(decoded) THEN decoded ELSE encodeAsCashaddr(decoded.val)

\* Translates the given address into slpaddr format.
toSlpAddress(address, regtestArg) ==
  LET regtest == BooleanOrFalse(regtestArg)
      decoded == decodeAddress(address, regtest)
  IN  IF ~Succeeded(decoded) THEN decoded ELSE encodeAsSlpaddr(decoded.val)

\* ------------------------------------------------------------- predicates

\* detect...(address, regtest) === expected
Equals(r, expected) == IF Succeeded(r) THEN Ok("boolean", r.val = expected) ELSE r

isLegacyAddress(address) == Equals(detectAddressFormat(address, "undefined"), Format.Legacy)

isBitpayAddress(address) == Equals(detectAddressFormat(address, "undefined"), Format.Bitpay)

isCashAddress(address, regtest) ==
  Equals(detectAddressFormat(address, BooleanOrFalse(regtest)), Format.Cashaddr)

isSlpAddress(address, regtest) ==
  Equals(detectAddressFormat(address, BooleanOrFalse(regtest)), Format.Slpaddr)

isMainnetAddress(address, regtest) ==
  Equals(detectAddressNetwork(address, BooleanOrFalse(regtest)), Network.Mainnet)

isTestnetAddress(address, regtest) ==
  Equals(detectAddressNetwork(address, BooleanOrFalse(regtest)), Network.Testnet)

isRegTestAddress(address, regtest) ==
  Equals(detectAddressNetwork(address, BooleanOrFalse(regtest)), Network.Regtest)

isP2PKHAddress(address, regtest) ==
  Equals(detectAddressType(address, BooleanOrFalse(regtest)), Type.P2PKH)

isP2SHAddress(address, regtest) ==
  Equals(detectAddressType(address, BooleanOrFalse(regtest)), Type.P2SH)

\* ------------------------------------------------------ sampled arguments

HashOf(n, b) == [i \in 1..n |-> b]

\* The length of the hash in a payload of BASE_58_CHECK_PAYLOAD_LENGTH.
HashLength == BASE_58_CHECK_PAYLOAD_LENGTH - 1

Hashes20 == {HashOf(HashLength, b) : b \in 0..MaxByte}

\* Byte strings of other lengths: one no codec size, one a codec size.
OtherHashes == {HashOf(19, 0), HashOf(24, 0)}

\* The six bytes of the table and one byte it does not have.
VersionSamples == {0, 5, 111, 196, 28, 40, 1}

Prefixes == {"bitcoincash", "bchtest", "bchreg", "regtest",
             "simpleledger", "slptest", "slpreg"}

Base58Texts ==
  {bs58check_encode(<<v>> \o h) : v \in VersionSamples, h \in Hashes20 \cup OtherHashes}
  \cup {MkText("base58", NoPrefix, "", "", <<v>> \o HashOf(HashLength, 0), FALSE) : v \in {0, 111}}

\* Checksummed-prefix texts, written with the prefix they were sealed with
\* or without any.
CashTexts ==
  {MkText("cashaddr", shown, sealed, marker, h, TRUE) :
     shown \in {NoPrefix} \cup Prefixes, sealed \in Prefixes,
     marker \in {"P2PKH", "P2SH"}, h \in Hashes20 \cup OtherHashes}

\* Texts whose explicit prefix is not the sealed one, or whose checksum is
\* damaged.
BrokenCashTexts ==
  {MkText("cashaddr", "bchreg", "bitcoincash", "P2PKH", HashOf(HashLength, 0), TRUE),
   MkText("cashaddr", "bitcoincash", "bchreg", "P2PKH", HashOf(HashLength, 0), TRUE),
   MkText("cashaddr", "simpleledger", "bitcoincash", "P2SH", HashOf(HashLength, 0), TRUE),
   MkText("cashaddr", "bitcoincash", "bitcoincash", "P2PKH", HashOf(HashLength, 0), FALSE),
   MkText("cashaddr", NoPrefix, "slptest", "P2SH", HashOf(HashLength, 0), FALSE)}

OtherInputs ==
  {MkText("junk", NoPrefix, "", "", <<>>, FALSE),
   MkText("number", NoPrefix, "", "", <<>>, FALSE)}

Inputs ==
  Base58Texts
  \cup {t \in CashTexts : t.prefix \in {NoPrefix, t.sealed}}
  \cup BrokenCashTexts
  \cup OtherInputs

DecodedAddresses ==
  {Decoded(h, f, n, t) : h \in Hashes20 \cup OtherHashes, f \in Formats,
                         n \in Networks, t \in Types}

\* ------------------------------------------------------------- the state

VARIABLES
  pc,      \* "idle": no call made; "one": first made; "two": second made
  first,   \* the first call: [op, arg, regtest, out, consulted]
  second   \* the call made on what the first returned

vars == <<pc, first, second>>

NoCall == [op |-> "none", arg |-> <<>>, regtest |-> "undefined",
           out |-> Throw("none"), consulted |-> <<>>]

Init == pc = "idle" /\ first = NoCall /\ second = NoCall

\* The addresses the next call may be made on: any sampled input at first,
\* then the string the first call returned.
TextArgs ==
  IF pc = "idle" THEN Inputs
  ELSE IF pc = "one" /\ first.out.sort = "text" THEN {first.out.val}
  ELSE {}

\* The decoded addresses the next call may be made on.
DecodedArgs ==
  IF pc = "idle" THEN DecodedAddresses
  ELSE IF pc = "one" /\ first.out.sort = "decoded" THEN {first.out.val}
  ELSE {}

Record(call) ==
  IF pc = "idle"
  THEN pc' = "one" /\ first' = call /\ second' = second
  ELSE pc' = "two" /\ second' = call /\ first' = first

\* A call of a function (address, regtest).
Call2(op, address, regtest, out) ==
  Record([op |-> op, arg |-> address, regtest |-> regtest, out |-> out,
          consulted |-> decodeAddressRun(address, regtest).consulted])

\* A call of a function (address): decodeAddress runs with regtest left out.
Call1(op, address, out) == Call2(op, address, "undefined", out)

\* A call of an encoder: decodeAddress does not run.
CallE(op, decoded, out) ==
  Record([op |-> op, arg |-> decoded, regtest |-> "undefined", out |-> out,
          consulted |-> <<>>])

DecodeAddress ==
  \E a \in TextArgs, r \in RegtestArgs : Call2("decodeAddress", a, r, decodeAddress(a, r))

IsValidAddress ==
  \E a \in TextArgs : Call1("isValidAddress", a, isValidAddress(a))

DetectAddressFormat ==
  \E a \in TextArgs, r \in RegtestArgs :
     Call2("detectAddressFormat", a, r, detectAddressFormat(a, r))

DetectAddressNetwork ==
  \E a \in TextArgs, r \in RegtestArgs :
     Call2("detectAddressNetwork", a, r, detectAddressNetwork(a, r))

DetectAddressType ==
  \E a \in TextArgs, r \in RegtestArgs :
     Call2("detectAddressType", a, r, detectAddressType(a, r))

ToLegacyAddress ==
  \E a \in TextArgs, r \in RegtestArgs :
     Call2("toLegacyAddress", a, r, toLegacyAddress(a, r))

ToBitpayAddress ==
  \E a \in TextArgs : Call1("toBitpayAddress", a, toBitpayAddress(a))

ToCashAddress ==
  \E a \in TextArgs, r \in RegtestArgs :
     Call2("toCashAddress", a, r, toCashAddress(a, r))

ToSlpAddress ==
  \E a \in TextArgs, r \in RegtestArgs :
     Call2("toSlpAddress", a, r, toSlpAddress(a, r))

EncodeAsLegacy ==
  \E d \in DecodedArgs : CallE("encodeAsLegacy", d, encodeAsLegacy(d))

EncodeAsBitpay ==
  \E d \in DecodedArgs : CallE("encodeAsBitpay", d, encodeAsBitpay(d))

EncodeAsCashaddr ==
  \E d \in DecodedArgs : CallE("encodeAsCashaddr", d, encodeAsCashaddr(d))

EncodeAsSlpaddr ==
  \E d \in DecodedArgs : CallE("encodeAsSlpaddr", d, encodeAsSlpaddr(d))

EncodeAsRegtestaddr ==
  \E d \in DecodedArgs : CallE("encodeAsRegtestaddr", d, encodeAsRegtestaddr(d))

EncodeAsSlpRegtestaddr ==
  \E d \in DecodedArgs : CallE("encodeAsSlpRegtestaddr", d, encodeAsSlpRegtestaddr(d))

IsLegacyAddress ==
  \E a \in TextArgs : Call1("isLegacyAddress", a, isLegacyAddress(a))

IsBitpayAddress ==
  \E a \in TextArgs : Call1("isBitpayAddress", a, isBitpayAddress(a))

IsCashAddress ==
  \E a \in TextArgs, r \in RegtestArgs : Call2("isCashAddress", a, r, isCashAddress(a, r))

IsSlpAddress ==
  \E a \in TextArgs, r \in RegtestArgs : Call2("isSlpAddress", a, r, isSlpAddress(a, r))

IsMainnetAddress ==
  \E a \in TextArgs, r \in RegtestArgs :
     Call2("isMainnetAddress", a, r, isMainnetAddress(a, r))

IsTestnetAddress ==
  \E a \in TextArgs, r \in RegtestArgs :
     Call2("isTestnetAddress", a, r, isTestnetAddress(a, r))

IsRegTestAddress ==
  \E a \in TextArgs, r \in RegtestArgs :
     Call2("isRegTestAddress", a, r, isRegTestAddress(a, r))

IsP2PKHAddress ==
  \E a \in TextArgs, r \in RegtestArgs : Call2("isP2PKHAddress", a, r, isP2PKHAddress(a, r))

IsP2SHAddress ==
  \E a \in TextArgs, r \in RegtestArgs : Call2("isP2SHAddress", a, r, isP2SHAddress(a, r))

\* The caller starts over with a fresh argument.
Reset == pc # "idle" /\ pc' = "idle" /\ first' = NoCall /\ second' = NoCall

Next ==
  \/ DecodeAddress
  \/ IsValidAddress
  \/ DetectAddressFormat
  \/ DetectAddressNetwork
  \/ DetectAddressType
  \/ ToLegacyAddress
  \/ ToBitpayAddress
  \/ ToCashAddress
  \/ ToSlpAddress
  \/ EncodeAsLegacy
  \/ EncodeAsBitpay
  \/ EncodeAsCashaddr
  \/ EncodeAsSlpaddr
  \/ EncodeAsRegtestaddr
  \/ EncodeAsSlpRegtestaddr
  \/ IsLegacyAddress
  \/ IsBitpayAddress
  \/ IsCashAddress
  \/ IsSlpAddress
  \/ IsMainnetAddress
  \/ IsTestnetAddress
  \/ IsRegTestAddress
  \/ IsP2PKHAddress
  \/ IsP2SHAddress
  \/ Reset

Spec == Init /\ [][Next]_vars

\* ------------------------------------------------ vocabulary of the claims

Encoders == {"encodeAsLegacy", "encodeAsBitpay", "encodeAsCashaddr", "encodeAsSlpaddr"}

Translators == {"toLegacyAddress", "toBitpayAddress", "toCashAddress", "toSlpAddress"}

\* The functions that throw what decodeAddress throws.
Throwing ==
  Translators \cup
  {"decodeAddress", "detectAddressFormat", "detectAddressNetwork", "detectAddressType",
   "isLegacyAddress", "isBitpayAddress", "isCashAddress", "isSlpAddress",
   "isMainnetAddress", "isTestnetAddress", "isRegTestAddress", "isP2PKHAddress",
   "isP2SHAddress"}

\* The format an encoder or a translator renders.
TargetFormat(op) ==
  IF op \in {"encodeAsLegacy", "toLegacyAddress"} THEN Format.Legacy
  ELSE IF op \in {"encodeAsBitpay", "toBitpayAddress"} THEN Format.Bitpay
  ELSE IF op \in {"encodeAsCashaddr", "toCashAddress"} THEN Format.Cashaddr
  ELSE Format.Slpaddr

\* (format, network, type) has an entry: a version byte for the base58
\* formats, a prefix for the other two (every network has one).
InTables(format, network, type) ==
  IF format \in DOMAIN VERSION_BYTE
  THEN network \in DOMAIN VERSION_BYTE[format] /\ type \in DOMAIN VERSION_BYTE[format][network]
  ELSE TRUE

\* The mode a call ran decodeAddress in.
Mode(call) == BooleanOrFalse(call.regtest)

ModeOfNetwork(network) == IF network = Network.Regtest THEN "true" ELSE "false"

\* What translator op returns on address x in the given mode.
Translate(op, x, regtest) ==
  IF op = "toLegacyAddress" THEN toLegacyAddress(x, regtest)
  ELSE IF op = "toBitpayAddress" THEN toBitpayAddress(x)
  ELSE IF op = "toCashAddress" THEN toCashAddress(x, regtest)
  ELSE toSlpAddress(x, regtest)

SameResult(r1, r2) == r1.err = r2.err /\ (Succeeded(r1) => r1.val = r2.val)

\* ---------------------------------------------------------------------- C1

\* First an encoder on a 20-byte d whose (format, network, type) is in the
\* tables, then decodeAddress on the string in the mode of d.network.
RoundTripCase ==
  /\ pc = "two"
  /\ first.op \in Encoders
  /\ first.arg.format = TargetFormat(first.op)
  /\ Len(first.arg.hash) = HashLength
  /\ InTables(first.arg.format, first.arg.network, first.arg.type)
  /\ second.op = "decodeAddress"
  /\ Mode(second) = ModeOfNetwork(first.arg.network)

\* C1 as stated: decodeAddress(encodeAs<format>(d), d.network = Regtest)
\* equals d in all four fields for every table combination, (Bitpay,
\* Testnet, P2PKH) and (Bitpay, Testnet, P2SH) included.
C1_RoundTripAsStated ==
  RoundTripCase => Succeeded(second.out) /\ second.out.val = first.arg

\* C1, amended: the round trip returns d for every table combination but
\* (Bitpay, Testnet, *), whose strings carry the Legacy testnet version
\* bytes and decode to d with format Legacy.
C1_RoundTrip ==
  RoundTripCase =>
    /\ Succeeded(second.out)
    /\ second.out.val =
         IF first.arg.format = Format.Bitpay /\ first.arg.network = Network.Testnet
         THEN [first.arg EXCEPT !.format = Format.Legacy]
         ELSE first.arg

C1_Witness ==
  /\ RoundTripCase
  /\ first.arg.format = Format.Bitpay
  /\ first.arg.network = Network.Testnet
  /\ Succeeded(second.out)
  /\ second.out.val.format = Format.Legacy

\* ---------------------------------------------------------------------- C2

\* A string rendered from a 20-byte Regtest d in a format with a regtest
\* variant, then resolved.
RegtestRendered ==
  /\ pc = "two"
  /\ first.op \in {"encodeAsLegacy", "encodeAsCashaddr", "encodeAsSlpaddr"}
  /\ first.arg.network = Network.Regtest
  /\ Len(first.arg.hash) = HashLength
  /\ second.op \in {"decodeAddress", "detectAddressNetwork"}

\* A string rendered from a 20-byte Mainnet or Testnet d, then resolved in
\* regtest mode.
PublicRendered ==
  /\ pc = "two"
  /\ first.op \in Encoders
  /\ first.arg.network \in {Network.Mainnet, Network.Testnet}
  /\ Len(first.arg.hash) = HashLength
  /\ second.op = "decodeAddress"
  /\ Mode(second) = "true"

NetworkReturned(call) ==
  IF call.op = "decodeAddress" THEN call.out.val.network ELSE call.out.val

\* C2 as stated: a string rendered from a Regtest d (Legacy, Cashaddr,
\* Slpaddr) is rejected with InvalidAddress in non-regtest mode and
\* accepted in regtest mode; a string rendered from a Mainnet or Testnet d
\* is rejected in regtest mode.
C2_ModePartitionAsStated ==
  /\ RegtestRendered =>
       IF Mode(second) = "false"
       THEN second.out.err = InvalidAddressError
       ELSE Succeeded(second.out)
  /\ PublicRendered => second.out.err = InvalidAddressError

\* C2, amended: the partition holds for the Cashaddr and Slpaddr strings
\* and for the base58 strings of Mainnet; a base58 string with the version
\* bytes Legacy regtest shares with testnet (rendered as Legacy from
\* Regtest, as Legacy or Bitpay from Testnet) resolves in both modes, to
\* Testnet when regtest is false and to Regtest when it is true.
C2_ModePartition ==
  /\ RegtestRendered =>
       IF first.op = "encodeAsLegacy"
       THEN /\ Succeeded(second.out)
            /\ NetworkReturned(second) =
                 IF Mode(second) = "false" THEN Network.Testnet ELSE Network.Regtest
       ELSE IF Mode(second) = "false"
            THEN second.out.err = InvalidAddressError
            ELSE Succeeded(second.out) /\ NetworkReturned(second) = Network.Regtest
  /\ PublicRendered =>
       IF first.op \in {"encodeAsLegacy", "encodeAsBitpay"}
          /\ first.arg.network = Network.Testnet
       THEN /\ Succeeded(second.out)
            /\ second.out.val =
                 Decoded(first.arg.hash, Format.Legacy, Network.Regtest, first.arg.type)
       ELSE second.out.err = InvalidAddressError

C2_Witness ==
  /\ RegtestRendered
  /\ first.op = "encodeAsCashaddr"
  /\ second.op = "detectAddressNetwork"
  /\ Mode(second) = "false"
  /\ second.out.err = InvalidAddressError

\* ---------------------------------------------------------------------- C3

Hash20(call) ==
  call.op = "decodeAddress" /\ Succeeded(call.out) => Len(call.out.val.hash) = HashLength

\* C3: every DecodedAddress decodeAddress returns, through any scheme and
\* in either mode, has a hash of exactly 20 bytes.
C3_HashLength == Hash20(first) /\ Hash20(second)

\* ---------------------------------------------------------------------- C4

\* A translator called on an address that resolves, in the mode of the
\* call, to the translator's own format.
AlreadyInTarget(call) ==
  /\ call.op \in Translators
  /\ Succeeded(decodeAddress(call.arg, Mode(call)))
  /\ decodeAddress(call.arg, Mode(call)).val.format = TargetFormat(call.op)

ReturnsInput(call) == Succeeded(call.out) /\ call.out.val = call.arg

\* C4 as stated: each of the four translators returns the input string
\* itself, character for character, when the input is already in the
\* target format, an input without explicit prefix included.
C4_ShortCircuitAsStated ==
  /\ AlreadyInTarget(first) => ReturnsInput(first)
  /\ AlreadyInTarget(second) => ReturnsInput(second)

\* The input with its prefix written out: what the codec renders.
Canonical(address) == Prepend(address.sealed, address)

ShortCircuit(call) ==
  AlreadyInTarget(call) =>
    IF call.op \in {"toLegacyAddress", "toBitpayAddress"}
    THEN ReturnsInput(call)
    ELSE /\ Succeeded(call.out)
         /\ call.out.val = Canonical(call.arg)
         /\ (call.out.val = call.arg) <=> HasColon(call.arg)

\* C4, amended: toLegacyAddress and toBitpayAddress return the input
\* string itself when it is already in the target format; toCashAddress
\* and toSlpAddress have no short-circuit and always re-encode, so they
\* return the string with its prefix, which is the input itself only when
\* the input was given with its prefix.
C4_ShortCircuit == ShortCircuit(first) /\ ShortCircuit(second)

C4_Witness ==
  /\ first.op = "toCashAddress"
  /\ AlreadyInTarget(first)
  /\ ~HasColon(first.arg)
  /\ Succeeded(first.out)
  /\ first.out.val # first.arg
  /\ first.out.val.prefix = "bitcoincash"

\* ---------------------------------------------------------------------- C5

\* Two translator calls in one mode, the second on the result of the first,
\* the first on an address that resolves in that mode.
ChainOfTranslators ==
  /\ pc = "two"
  /\ first.op \in Translators
  /\ second.op \in Translators
  /\ Mode(first) = Mode(second)
  /\ Succeeded(decodeAddress(first.arg, Mode(first)))

\* C5: for every address x that resolves under mode m and every translator
\* T called with mode m, T(T(x)) succeeds and equals T(x).
C5_Idempotent ==
  ChainOfTranslators /\ second.op = first.op =>
    Succeeded(second.out) /\ second.out.val = first.out.val

\* ---------------------------------------------------------------------- C6

\* C6: for every address x that resolves under mode m and translators F
\* and G called with mode m, G(F(x)) equals G(x).
C6_Transitive ==
  ChainOfTranslators =>
    SameResult(second.out, Translate(second.op, first.arg, Mode(second)))

\* ---------------------------------------------------------------------- C7

\* Resolves in regtest mode and not otherwise.
OnlyRegtest(x) ==
  Succeeded(decodeAddress(x, "true")) /\ ~Succeeded(decodeAddress(x, "false"))

ValidityTotal(call) ==
  call.op = "isValidAddress" =>
    /\ Succeeded(call.out)
    /\ call.out.val \in BOOLEAN
    /\ call.out.val = Succeeded(decodeAddress(call.arg, "false"))
    /\ OnlyRegtest(call.arg) => call.out.val = FALSE

\* C7: isValidAddress never raises and returns a boolean, on non-strings
\* and on corrupted checksums too; the boolean is true exactly when
\* decodeAddress succeeds in non-regtest mode, so an address that resolves
\* only in regtest mode yields false.
C7_IsValidTotal == ValidityTotal(first) /\ ValidityTotal(second)

C7_Witness ==
  /\ first.op = "isValidAddress"
  /\ first.arg.kind = "cashaddr"
  /\ first.arg.prefix = "bchreg"
  /\ OnlyRegtest(first.arg)
  /\ first.out.val = FALSE

\* ---------------------------------------------------------------------- C8

NoSchemeAccepts(x, regtest) ==
  /\ ~Succeeded(decodeBase58Address(x, regtest))
  /\ ~Succeeded(decodeCashAddress(x, regtest))
  /\ ~Succeeded(decodeSlpAddress(x, regtest))

UniformFailure(call) ==
  call.op \in Throwing =>
    /\ NoSchemeAccepts(call.arg, Mode(call)) => call.out.err = InvalidAddressError
    /\ call.out.err \in {NoError, InvalidAddressError}

\* C8: when none of the three schemes accepts the input under the active
\* mode, decodeAddress and every detector, predicate and translator raise
\* InvalidAddressError; no other error kind leaves any of them.
C8_UniformFailure == UniformFailure(first) /\ UniformFailure(second)

C8_Witness ==
  /\ first.op = "detectAddressType"
  /\ first.arg.kind = "number"
  /\ decodeCashAddress(first.arg, Mode(first)).err = "TypeError"
  /\ first.out.err = InvalidAddressError

\* ---------------------------------------------------------------------- C9

\* encodeAsLegacy or encodeAsBitpay on a d whose combination has no version
\* byte.
MissingCombination(call) ==
  /\ call.op \in {"encodeAsLegacy", "encodeAsBitpay"}
  /\ ~InTables(TargetFormat(call.op), call.arg.network, call.arg.type)

\* C9 as stated: rendering a combination without version byte raises
\* InvalidAddress.
C9_MissingEntryAsStated ==
  /\ MissingCombination(first) => first.out.err = InvalidAddressError
  /\ MissingCombination(second) => second.out.err = InvalidAddressError

\* C9, amended: rendering a combination without version byte, which is
\* encodeAsBitpay on a Regtest DecodedAddress, never returns a string; the
\* error raised is the TypeError of the lookup miss, not InvalidAddress.
C9_MissingEntry ==
  /\ MissingCombination(first) => first.out.err = "TypeError"
  /\ MissingCombination(second) => second.out.err = "TypeError"

C9_Witness ==
  /\ first.op = "encodeAsBitpay"
  /\ first.arg.network = Network.Regtest
  /\ MissingCombination(first)
  /\ first.out.err = "TypeError"

\* --------------------------------------------------------------------- C10

DecodeOrder(call) ==
  call.op = "decodeAddress" =>
    LET b == decodeBase58Address(call.arg, Mode(call))
        c == decodeCashAddress(call.arg, Mode(call))
        s == decodeSlpAddress(call.arg, Mode(call))
    IN  IF Succeeded(b)
          THEN call.out = b /\ call.consulted = <<"base58">>
        ELSE IF Succeeded(c)
          THEN call.out = c /\ call.consulted = <<"base58", "cashaddr">>
        ELSE IF Succeeded(s)
          THEN call.out = s /\ call.consulted = <<"base58", "cashaddr", "slpaddr">>
        ELSE /\ call.out.err = InvalidAddressError
             /\ call.consulted = <<"base58", "cashaddr", "slpaddr">>

\* C10: decodeAddress returns the result of the first scheme that succeeds
\* in the order base58, cashaddr, slpaddr; a failure inside a scheme only
\* eliminates that scheme, and no scheme after the first success is
\* consulted.
C10_DecodeOrder == DecodeOrder(first) /\ DecodeOrder(second)

C10_Witness ==
  /\ first.op = "decodeAddress"
  /\ ~Succeeded(decodeBase58Address(first.arg, Mode(first)))
  /\ ~Succeeded(decodeCashAddress(first.arg, Mode(first)))
  /\ Succeeded(first.out)
  /\ first.out.val.format = Format.Slpaddr
  /\ first.consulted = <<"base58", "cashaddr", "slpaddr">>

\* --------------------------------------------------------------------- C11

NetworkByMode(call) ==
  call.op = "decodeAddress" /\ Succeeded(call.out) =>
    IF Mode(call) = "false"
    THEN call.out.val.network \in {Network.Mainnet, Network.Testnet}
    ELSE call.out.val.network = Network.Regtest

\* C11: a successful decodeAddress(x, false) returns network Mainnet or
\* Testnet and never Regtest, a successful decodeAddress(x, true) returns
\* network Regtest and never Mainnet or Testnet, whichever scheme produced
\* the result.
C11_NetworkByMode == NetworkByMode(first) /\ NetworkByMode(second)

C11_Witness ==
  /\ first.op = "decodeAddress"
  /\ Mode(first) = "true"
  /\ first.arg.kind = "cashaddr"
  /\ first.arg.sealed = "slpreg"
  /\ Succeeded(first.out)
  /\ first.out.val.network = Network.Regtest

\* --------------------------------------------------------------------- C12

\* decodeAddress on a string without ':' that the base58 scheme rejects, so
\* that the cashaddr scheme runs its candidate loop.
CandidateCase(call) ==
  /\ call.op = "decodeAddress"
  /\ IsString(call.arg)
  /\ ~HasColon(call.arg)
  /\ ~Succeeded(decodeBase58Address(call.arg, Mode(call)))

\* The checksum of the address validates under the candidate prefix.
Validates(prefix, address) == Succeeded(cashaddr_decode(Prepend(prefix, address)))

\* Index of the first candidate of list, from i on, that validates and is
\* in the set eligible; 0 when there is none.
RECURSIVE FirstWinner(_, _, _, _)
FirstWinner(list, eligible, address, i) ==
  IF i > Len(list) THEN 0
  ELSE IF list[i] \in eligible /\ Validates(list[i], address) THEN i
  ELSE FirstWinner(list, eligible, address, i + 1)

NetworkOfCashPrefix(prefix) ==
  IF prefix = "bitcoincash" THEN Network.Mainnet
  ELSE IF prefix = "bchtest" THEN Network.Testnet
  ELSE Network.Regtest

\* The scheme tries list in order up to the first winner, succeeds exactly
\* when there is one, and decodeAddress returns that winner's decoding.
CandidateFallback(call, list, eligible) ==
  LET regtest == Mode(call)
      k == FirstWinner(list, eligible, call.arg, 1)
      c == decodeCashAddress(call.arg, regtest)
  IN  /\ CashTried(call.arg, regtest, 1) = IF k = 0 THEN list ELSE SubSeq(list, 1, k)
      /\ Succeeded(c) <=> k # 0
      /\ k # 0 =>
           call.out = Ok("decoded", Decoded(call.arg.bytes, Format.Cashaddr,
                                            NetworkOfCashPrefix(list[k]),
                                            TypeOfMarker(call.arg.marker)))

\* The candidate lists as C12 states them, one per mode.
StatedCandidates(regtest) ==
  IF regtest = "false" THEN <<"bitcoincash", "bchtest">> ELSE <<"regtest", "bchreg">>

StatedFallback(call) ==
  CandidateCase(call) =>
    LET list == StatedCandidates(Mode(call))
    IN  CandidateFallback(call, list, {list[i] : i \in 1..Len(list)})

\* C12 as stated: for an address without ':' the cashaddr scheme tries the
\* candidates of the active mode in order (bitcoincash, bchtest when not in
\* regtest mode; regtest, bchreg in regtest mode), the first candidate
\* whose checksum validates wins, and the scheme succeeds if and only if
\* some candidate of the active mode's list validates.
C12_CandidatesAsStated == StatedFallback(first) /\ StatedFallback(second)

\* The prefixes that can win in a mode.
EligiblePrefixes(regtest) ==
  IF regtest = "false" THEN {"bitcoincash", "bchtest"} ELSE {"bchreg"}

CodeFallback(call) ==
  CandidateCase(call) =>
    /\ CandidateFallback(call, CashPrefixes, EligiblePrefixes(Mode(call)))
    /\ call.arg.sealed \notin EligiblePrefixes(Mode(call)) =>
         ~Succeeded(decodeCashAddress(call.arg, Mode(call)))

\* C12, amended: for an address without ':' the cashaddr scheme tries one
\* candidate list in both modes, bitcoincash, bchtest, regtest, bchreg, in
\* that order; a candidate wins when its checksum validates and its prefix
\* is eligible in the active mode (bitcoincash or bchtest when not in
\* regtest mode, bchreg in regtest mode; regtest in neither).  The first
\* winner yields the DecodedAddress, the scheme succeeds if and only if
\* there is a winner, and a payload that validates only under a prefix of
\* the other mode, or under regtest, is rejected.
C12_Candidates == CodeFallback(first) /\ CodeFallback(second)

C12_Witness ==
  /\ CandidateCase(first)
  /\ Mode(first) = "true"
  /\ first.arg.sealed = "bchreg"
  /\ CashTried(first.arg, Mode(first), 1) = CashPrefixes
  /\ Succeeded(first.out)
  /\ first.out.val.network = Network.Regtest

\* --------------------------------------------------------------------- C13

BitpayNeverMisses(call) ==
  call.op = "toBitpayAddress" =>
    LET decoded == decodeAddress(call.arg, "undefined")
    IN  /\ call.out.err \in {NoError, InvalidAddressError}
        /\ Succeeded(call.out) => call.out.sort = "text"
        /\ Succeeded(call.out) <=> Succeeded(decoded)
        /\ Succeeded(decoded) =>
             /\ decoded.val.network \in {Network.Mainnet, Network.Testnet}
             /\ InTables(Format.Bitpay, decoded.val.network, decoded.val.type)

\* C13: toBitpayAddress resolves its input in non-regtest mode, so for
\* every input it returns a string or raises InvalidAddressError; the
\* network it hands to encodeAsBitpay is Mainnet or Testnet, which both
\* have Bitpay version bytes for P2PKH and P2SH.
C13_BitpayNeverMisses == BitpayNeverMisses(first) /\ BitpayNeverMisses(second)

\* A Legacy string that regtest mode would resolve to Regtest.
C13_Witness ==
  /\ first.op = "toBitpayAddress"
  /\ first.arg.kind = "base58"
  /\ Succeeded(decodeAddress(first.arg, "true"))
  /\ Succeeded(first.out)
  /\ first.out.val.bytes[1] = VERSION_BYTE[Format.Bitpay][Network.Testnet][Type.P2PKH]

====
